---- MODULE Spec2Model ----
(***************************************************************************)
(* Alignment, merge and identification-voting engine of the                *)
(* transcription-diarization service.                                      *)
(*                                                                         *)
(* Times are integer milliseconds.  Every start/end the diarization        *)
(* service hands on is round(x, 3) seconds (diarization.py:148-149), so    *)
(* it lies on the millisecond grid; a difference of two such values        *)
(* rounded to 3 decimals is the integer difference.                        *)
(***************************************************************************)
EXTENDS Integers, Sequences, FiniteSets, TLC

VARIABLES
    pc,             \* position of the modelled request / call
    segments,       \* DiarizationService.diarize: raw segments (diarization.py:142)
    exclusive,      \* DiarizationService.diarize: segments after _make_exclusive
    timestamp,      \* _find_speaker_at_time: argument
    speaker,        \* _find_speaker_at_time: return value
    whisper_result,         \* merge_transcription_with_diarization: argument
    diarization_result,     \* merge_transcription_with_diarization: argument
    speaker_mapping,        \* merge_transcription_with_diarization: argument
    speaker_confidences,    \* merge_transcription_with_diarization: argument
    turn_words,             \* _group_words_into_turns: turn["words"] of each turn before line 218 deletes it
    merged,                 \* merge_transcription_with_diarization: return value
    settings_threshold,     \* Settings.similarity_threshold, loaded from the environment
    similarity_threshold,   \* identify_speakers: form field score threshold of the request
    speaker_segments,       \* identify_speakers: speakers still to identify, in dict order
    embeddings,             \* identify_speaker_by_voting: argument (each embedding is its source segment)
    queries,                \* the arguments of each query_points call of search_similar_speakers
    search_results,         \* the matches search_similar_speakers returned, per embedding queried
    speaker_scores,         \* identify_speaker_by_voting: speaker_scores and speaker_info, in insertion order
    match,                  \* identify_speaker_by_voting: return value
    extracted,              \* identify_speakers: segment_embeddings of each speaker handled
    id_mapping,             \* identify_speakers: speaker_mapping
    id_confidences,         \* identify_speakers: speaker_confidences
    store,                  \* the points of the Qdrant collection
    requests,               \* the requests to the speaker endpoints, each with its position
    uuids,                  \* number of values uuid.uuid4() has returned
    uploads,                \* the requests that upload a file, each with its position
    upload_dir              \* the files of settings.upload_dir

diarVars == <<segments, exclusive, timestamp, speaker>>

mergeVars == <<whisper_result, diarization_result, speaker_mapping, speaker_confidences,
               turn_words, merged>>

identVars == <<settings_threshold, similarity_threshold, speaker_segments, embeddings,
               queries, search_results, speaker_scores, match, extracted, id_mapping, id_confidences>>

storeVars == <<store, requests, uuids>>

uploadVars == <<uploads, upload_dir>>

vars == <<pc, diarVars, mergeVars, identVars, storeVars, uploadVars>>

(***************************************************************************)
(* Bounds                                                                  *)
(***************************************************************************)
MaxSegs == 3

MaxTick == 3

MaxWords == 3

MaxMergeSegs == 2

MaxEmbeddings == 2

MaxStored == 2

MaxRequests == 3

MaxUploads == 2

(***************************************************************************)
(* Program constants                                                       *)
(***************************************************************************)
\* transcript_merger.py:163  "if min_distance < 0.5"  (milliseconds here)
Tolerance == 500

\* Python's None
None == "None"

\* grid step of the modelled times: half the tolerance
Step == Tolerance \div 2

Times == {Step * k : k \in 0..MaxTick}

\* query instants: a grid twice as fine, reaching past the last segment by
\* more than the tolerance
TimeStamps == {(Step \div 2) * k : k \in 0..(2 * MaxTick + 6)}

Speakers == {"SPEAKER_00", "SPEAKER_01"}

\* a segment dictionary as diarize builds it (diarization.py:146-151)
Segment(spk, s, e) == [speaker |-> spk, start |-> s, end |-> e, duration |-> e - s]

\* the segments a diarization pipeline yields: start <= end
Segments == {seg \in {Segment(spk, s, e) : spk \in Speakers, s \in Times, e \in Times} :
                seg["start"] <= seg["end"]}

SegLists == UNION {[1..n -> Segments] : n \in 0..MaxSegs}

Last(s) == s[Len(s)]

Front(s) == SubSeq(s, 1, Len(s) - 1)

(***************************************************************************)
(* DiarizationService._make_exclusive                                      *)
(***************************************************************************)
\* one step of sorted(): insert seg behind every element whose key is <= its
\* key, which keeps equal keys in input order (Python's sort is stable)
RECURSIVE InsertByStart(_, _)
InsertByStart(sorted, seg) ==
    IF sorted = <<>> THEN <<seg>>
    ELSE IF Last(sorted).start <= seg["start"] THEN Append(sorted, seg)
    ELSE Append(InsertByStart(Front(sorted), seg), Last(sorted))

RECURSIVE SortedFrom(_, _)
SortedFrom(acc, segs) ==
    IF segs = <<>> THEN acc
    ELSE SortedFrom(InsertByStart(acc, Head(segs)), Tail(segs))

\* mutant: the list is walked in the order given
unsorted_segments(segs) == segs

\* sorted(segments, key=lambda x: x["start"])
sorted_segments(segs) == SortedFrom(<<>>, segs)

\* mutant: an overlapping predecessor is left as it is
append_untruncated(excl, seg) == Append(excl, seg)

\* mutant: the duration of an overlapped predecessor is recomputed but its end
\* is not moved
shorten_duration_only(excl, seg) ==
    IF excl = <<>> THEN <<seg>>
    ELSE LET last == Last(excl) IN
         IF seg["start"] < last["end"]
         THEN LET cut == [last EXCEPT !["duration"] = seg["start"] - last["start"]]
              IN  IF cut["duration"] <= 0
                  THEN Append(Front(excl), seg)
                  ELSE Append(Append(Front(excl), cut), seg)
         ELSE Append(excl, seg)

\* mutant: the overlapped predecessor is kept whole and the new segment
\* starts where it ends
truncate_new_segment(excl, seg) ==
    IF excl = <<>> THEN <<seg>>
    ELSE LET last == Last(excl) IN
         IF seg["start"] < last["end"]
         THEN LET cut == [seg EXCEPT !["start"] = last["end"],
                                     !["duration"] = seg["end"] - last["end"]]
              IN  IF cut["duration"] <= 0 THEN excl ELSE Append(excl, cut)
         ELSE Append(excl, seg)

\* mutant: a predecessor cut down to nothing is kept
keep_emptied_predecessor(excl, seg) ==
    IF excl = <<>> THEN <<seg>>
    ELSE LET last == Last(excl) IN
         IF seg["start"] < last["end"]
         THEN Append(Append(Front(excl), [last EXCEPT !["end"] = seg["start"],
                                                      !["duration"] = seg["start"] - last["start"]]),
                     seg)
         ELSE Append(excl, seg)

\* body of the loop over sorted_segments (diarization.py:270-280); the
\* duration round(end - start, 3) of two millisecond values is their difference
make_exclusive_step(excl, seg) ==
    IF excl = <<>> THEN <<seg>>
    ELSE LET last == Last(excl) IN
         IF seg["start"] < last["end"]
         THEN LET cut == [last EXCEPT !["end"] = seg["start"],
                                      !["duration"] = seg["start"] - last["start"]]
              IN  IF cut["duration"] <= 0
                  THEN Append(Front(excl), seg)
                  ELSE Append(Append(Front(excl), cut), seg)
         ELSE Append(excl, seg)

RECURSIVE make_exclusive_loop(_, _)
make_exclusive_loop(excl, rest) ==
    IF rest = <<>> THEN excl
    ELSE make_exclusive_loop(make_exclusive_step(excl, Head(rest)), Tail(rest))

_make_exclusive(segs) ==
    IF segs = <<>> THEN segs
    ELSE make_exclusive_loop(<<>>, sorted_segments(segs))

(***************************************************************************)
(* TranscriptMerger._find_speaker_at_time                                  *)
(***************************************************************************)
\* mutant: the last segment, in list order, with start <= t <= end
last_containing_speaker(t, segs) ==
    LET hits == {i \in DOMAIN segs : segs[i]["start"] <= t /\ t <= segs[i]["end"]} IN
    IF hits = {} THEN None
    ELSE segs[CHOOSE i \in hits : \A j \in hits : j <= i]["speaker"]

\* first loop: the first segment, in list order, with start <= t <= end
RECURSIVE containing_speaker(_, _)
containing_speaker(t, segs) ==
    IF segs = <<>> THEN None
    ELSE IF Head(segs)["start"] <= t /\ t <= Head(segs)["end"] THEN Head(segs)["speaker"]
    ELSE containing_speaker(t, Tail(segs))

\* "Distance to segment" (transcript_merger.py:151-156)
distance(t, seg) ==
    IF t < seg["start"] THEN seg["start"] - t
    ELSE IF t > seg["end"] THEN t - seg["end"]
    ELSE 0

\* float("inf")
Inf == 1000000000

\* mutant: a segment at equal distance replaces the one found before
nearer_or_equal(d, min_distance) == d <= min_distance

\* "if distance < min_distance"
nearer(d, min_distance) == d < min_distance

\* second loop: <<min_distance, nearest_speaker>> after the walk
RECURSIVE nearest(_, _, _)
nearest(t, segs, best) ==
    IF segs = <<>> THEN best
    ELSE LET d == distance(t, Head(segs)) IN
         IF nearer(d, best[1])
         THEN nearest(t, Tail(segs), <<d, Head(segs)["speaker"]>>)
         ELSE nearest(t, Tail(segs), best)

\* mutant: a segment exactly at the tolerance still counts
within_or_at_tolerance(min_distance) == min_distance <= Tolerance

\* "if min_distance < 0.5"
within_tolerance(min_distance) == min_distance < Tolerance

_find_speaker_at_time(t, diar_segments) ==
    LET hit == containing_speaker(t, diar_segments) IN
    IF hit # None THEN hit
    ELSE LET best == nearest(t, diar_segments, <<Inf, None>>) IN
         IF within_tolerance(best[1]) THEN best[2] ELSE None


(***************************************************************************)
(* Python values                                                           *)
(*   None of a str-typed value is the string None; None of a float-typed   *)
(*   value is NoScore and a float x is <<x>>; a dict is a function and a   *)
(*   missing key is a key outside its DOMAIN.  An Optional[dict] argument  *)
(*   that is None is the empty dict: every use of speaker_mapping and      *)
(*   speaker_confidences is guarded by truthiness, which is false of both. *)
(***************************************************************************)
NoScore == <<>>

NoDict == <<>>

\* d.get(k, default)
Get(d, k, default) == IF k \in DOMAIN d THEN d[k] ELSE default

\* bool(d) of a dict or a list
Truthy(d) == DOMAIN d # {}

Whitespace == {" "}

RECURSIVE lstrip(_)
lstrip(text) ==
    IF text # <<>> /\ Head(text) \in Whitespace THEN lstrip(Tail(text)) ELSE text

RECURSIVE rstrip(_)
rstrip(text) ==
    IF text # <<>> /\ Last(text) \in Whitespace THEN rstrip(Front(text)) ELSE text

\* str.strip()
strip(text) == rstrip(lstrip(text))

\* " ".join(texts)
RECURSIVE join_space(_)
join_space(texts) ==
    IF texts = <<>> THEN <<>>
    ELSE IF Len(texts) = 1 THEN texts[1]
    ELSE texts[1] \o <<" ">> \o join_space(Tail(texts))

(***************************************************************************)
(* TranscriptMerger                                                        *)
(***************************************************************************)
\* seg["words"] of the segments that have the key, concatenated (lines 39-41)
RECURSIVE segment_words(_)
segment_words(segs) ==
    IF segs = <<>> THEN <<>>
    ELSE Get(Head(segs), "words", <<>>) \o segment_words(Tail(segs))

\* the list named words after lines 35-41
extract_words(wr) ==
    LET words == Get(wr, "words", <<>>) IN
    IF words # <<>> THEN words
    ELSE words \o segment_words(Get(wr, "segments", <<>>))

\* whisper_result after lines 35-41: words is the list object stored under
\* whisper_result["words"] when that key exists, and extend() grows it in place
whisper_result_after(wr) ==
    IF "words" \in DOMAIN wr /\ wr["words"] = <<>>
    THEN [wr EXCEPT !["words"] = extract_words(wr)]
    ELSE wr

\* mutant: a word without speaker keeps None as its label
assign_word_keeping_none(word, diar_segments) ==
    LET word_start == Get(word, "start", 0)
        word_end == Get(word, "end", word_start)
        word_mid == (word_start + word_end) \div 2
    IN  [speaker |-> _find_speaker_at_time(word_mid, diar_segments)] @@ word

\* lines 113-123 for one word
assign_word(word, diar_segments) ==
    LET word_start == Get(word, "start", 0)
        word_end == Get(word, "end", word_start)
        word_mid == (word_start + word_end) \div 2
        found == _find_speaker_at_time(word_mid, diar_segments)
    IN  [speaker |-> IF found # None THEN found ELSE "SPEAKER_UNKNOWN"] @@ word

_assign_words_to_speakers(words, diar_segments) ==
    [i \in DOMAIN words |-> assign_word(words[i], diar_segments)]

\* mutant: the open turn is replaced without being appended to turns
start_turn_dropping_open(st, word) ==
    <<st[1], <<[speaker |-> word["speaker"], start |-> Get(word, "start", 0),
                end |-> Get(word, "end", 0), text |-> strip(Get(word, "word", <<>>)),
                words |-> <<word>>]>> >>

\* lines 194-204: close the open turn, open a new one on this word
start_turn(st, word) ==
    <<st[1] \o st[2], <<[speaker |-> word["speaker"], start |-> Get(word, "start", 0),
                         end |-> Get(word, "end", 0), text |-> strip(Get(word, "word", <<>>)),
                         words |-> <<word>>]>> >>

\* mutant: the open turn takes the word's text but keeps its end
continue_turn_keeping_end(st, word) ==
    LET current_turn == st[2][1] IN
    <<st[1], <<[current_turn EXCEPT
                  !["text"] = @ \o <<" ">> \o strip(Get(word, "word", <<>>)),
                  !["words"] = Append(@, word)]>> >>

\* lines 206-209: extend the open turn by this word
continue_turn(st, word) ==
    LET current_turn == st[2][1] IN
    <<st[1], <<[current_turn EXCEPT
                  !["end"] = Get(word, "end", current_turn["end"]),
                  !["text"] = @ \o <<" ">> \o strip(Get(word, "word", <<>>)),
                  !["words"] = Append(@, word)]>> >>

\* body of the loop of _group_words_into_turns (lines 186-209); st is
\* <<turns, current_turn>> with current_turn <<>> for None
group_word(st, word) ==
    LET spk == Get(word, "speaker", "SPEAKER_UNKNOWN")
        word_text == strip(Get(word, "word", <<>>))
    IN  IF word_text = <<>> THEN st
        ELSE IF st[2] = <<>> \/ st[2][1]["speaker"] # spk THEN start_turn(st, word)
        ELSE continue_turn(st, word)

RECURSIVE group_loop(_, _)
group_loop(st, words) ==
    IF words = <<>> THEN st
    ELSE group_loop(group_word(st, Head(words)), Tail(words))

\* the turns, each with its words list, after line 213
turns_with_words(words) ==
    IF words = <<>> THEN <<>>
    ELSE LET st == group_loop(<<<<>>, <<>>>>, words) IN st[1] \o st[2]

\* lines 216-218: add duration, delete words
clean_turn(turn) ==
    [speaker |-> turn["speaker"], start |-> turn["start"], end |-> turn["end"],
     text |-> turn["text"], duration |-> turn["end"] - turn["start"]]

_group_words_into_turns(words) ==
    LET turns == turns_with_words(words) IN
    [i \in DOMAIN turns |-> clean_turn(turns[i])]

\* lines 76-81 for one turn
map_turn(turn, mapping, confidences) ==
    IF Truthy(mapping)
    THEN LET named == [identified_as |-> Get(mapping, turn["speaker"], None)] @@ turn IN
         IF Truthy(confidences)
         THEN [confidence |-> Get(confidences, turn["speaker"], NoScore)] @@ named
         ELSE named
    ELSE turn

\* lines 238-259 for one Whisper segment
merge_segment(wseg, diar_segments, mapping, confidences) ==
    LET seg_start == Get(wseg, "start", 0)
        seg_end == Get(wseg, "end", 0)
        seg_mid == (seg_start + seg_end) \div 2
        found == _find_speaker_at_time(seg_mid, diar_segments)
        spk == IF found # None THEN found ELSE "SPEAKER_UNKNOWN"
        merged_seg == [speaker |-> spk, start |-> seg_start, end |-> seg_end,
                       duration |-> seg_end - seg_start,
                       text |-> strip(Get(wseg, "text", <<>>))]
        named == IF Truthy(mapping)
                 THEN [identified_as |-> Get(mapping, spk, None)] @@ merged_seg
                 ELSE merged_seg
    IN  IF Truthy(confidences)
        THEN [confidence |-> Get(confidences, spk, NoScore)] @@ named
        ELSE named

_merge_segment_level(wr, dr, mapping, confidences) ==
    LET whisper_segments == Get(wr, "segments", <<>>)
        diar_segments == Get(dr, "segments", <<>>)
    IN  [text |-> Get(wr, "text", <<>>),
         segments |-> [i \in DOMAIN whisper_segments |->
                          merge_segment(whisper_segments[i], diar_segments, mapping, confidences)],
         num_speakers |-> Get(dr, "num_speakers", 1),
         duration |-> Get(wr, "duration", Get(dr, "audio_duration", 0)),
         language |-> Get(wr, "language", None)]

\* lines 54-67
single_speaker_result(wr, words, mapping, confidences) ==
    [text |-> Get(wr, "text", <<>>),
     segments |-> <<[speaker |-> "SPEAKER_00",
                     identified_as |-> IF Truthy(mapping) THEN Get(mapping, "SPEAKER_00", None) ELSE None,
                     confidence |-> IF Truthy(confidences) THEN Get(confidences, "SPEAKER_00", NoScore) ELSE NoScore,
                     start |-> 0,
                     end |-> Get(wr, "duration", 0),
                     text |-> Get(wr, "text", <<>>)]>>,
     words |-> words,
     num_speakers |-> 1,
     duration |-> Get(wr, "duration", 0)]

\* lines 69-94
word_level_result(wr, dr, words, mapping, confidences) ==
    LET word_assignments == _assign_words_to_speakers(words, Get(dr, "segments", <<>>))
        turns == _group_words_into_turns(word_assignments)
        speaker_turns == [i \in DOMAIN turns |-> map_turn(turns[i], mapping, confidences)]
        reported == Get(wr, "text", <<>>)
    IN  [text |-> IF reported # <<>> THEN reported
                  ELSE join_space([i \in DOMAIN words |-> Get(words[i], "word", <<>>)]),
         segments |-> speaker_turns,
         num_speakers |-> Get(dr, "num_speakers",
                              Cardinality({speaker_turns[i]["speaker"] : i \in DOMAIN speaker_turns})),
         duration |-> Get(wr, "duration", Get(dr, "audio_duration", 0)),
         language |-> Get(wr, "language", None)]



(***************************************************************************)
(* SpeakerDBService: similarity search and voting                          *)
(*   A score is an integer number of hundredths.  A mean is the pair       *)
(*   <<sum, count>>, compared by cross-multiplication.                     *)
(***************************************************************************)
\* config.py:37  similarity_threshold: float = 0.7
DefaultThreshold == 70

\* speaker_db.py:320  top_k=3
TopK == 3

\* the points of the collection: MaxStored embeddings of one identity, one of
\* another (payload written by add_speaker_embedding, lines 141-146)
Store ==
    [i \in 1..MaxStored |-> [speaker_id |-> "X", speaker_name |-> "Alice"]]
        \o <<[speaker_id |-> "Y", speaker_name |-> "Bob"]>>

ScoreValues == {0, DefaultThreshold, 90}

\* mutant: a supplied threshold is always used
threshold_as_supplied(score_threshold, setting) ==
    IF score_threshold # NoScore THEN score_threshold[1] ELSE setting

\* speaker_db.py:246  threshold = score_threshold or self.settings.similarity_threshold
effective_threshold(score_threshold, setting) ==
    IF score_threshold # NoScore /\ score_threshold[1] # 0 THEN score_threshold[1] ELSE setting

Injective(f) == \A i, j \in DOMAIN f : i # j => f[i] # f[j]

NonIncreasing(f) == \A i \in 1..(Len(f) - 1) : f[i] >= f[i + 1]

\* what client.query_points may return for limit and score_threshold: at most
\* limit distinct points, each scoring at least the threshold, best first;
\* lines 257-265 turn each point into a match
QueryPoints(limit, threshold) ==
    LET lens == 0..(IF limit < Len(Store) THEN limit ELSE Len(Store))
        passing == {x \in ScoreValues : x >= threshold}
    IN  UNION {
          {[i \in 1..k |-> [speaker_id |-> Store[points[i]]["speaker_id"],
                            speaker_name |-> Store[points[i]]["speaker_name"],
                            score |-> scores[i]]] :
              points \in {f \in [1..k -> DOMAIN Store] : Injective(f)},
              scores \in {f \in [1..k -> passing] : NonIncreasing(f)}} :
          k \in lens}

\* the arguments search_similar_speakers passes to query_points
search_query(top_k, score_threshold, setting) ==
    [limit |-> top_k, score_threshold |-> effective_threshold(score_threshold, setting)]

\* search_similar_speakers(embedding, top_k, score_threshold), for each
\* effective threshold
SearchAnswers ==
    [threshold \in {0} \cup ScoreValues |-> QueryPoints(TopK, threshold)]

IndexOf(scores, speaker_id) ==
    CHOOSE i \in DOMAIN scores : scores[i]["speaker_id"] = speaker_id

\* lines 325-331 for one match
add_match(scores, m) ==
    IF \E i \in DOMAIN scores : scores[i]["speaker_id"] = m["speaker_id"]
    THEN [scores EXCEPT ![IndexOf(scores, m["speaker_id"])]["scores"] = Append(@, m["score"])]
    ELSE Append(scores, [speaker_id |-> m["speaker_id"], info |-> m, scores |-> <<m["score"]>>])

\* lines 324-331 for the matches of one embedding
RECURSIVE add_matches(_, _)
add_matches(scores, matches) ==
    IF matches = <<>> THEN scores
    ELSE add_matches(add_match(scores, Head(matches)), Tail(matches))

RECURSIVE Sum(_)
Sum(xs) == IF xs = <<>> THEN 0 ELSE Head(xs) + Sum(Tail(xs))

\* avg_score = sum(scores) / len(scores)
avg_score(scores) == <<Sum(scores), Len(scores)>>

\* a > b on means
Greater(a, b) == a[1] * b[2] > b[1] * a[2]

\* lines 337-344: <<best_speaker_id, best_avg_score>> after the walk over
\* speaker_scores.items()
RECURSIVE best_speaker(_, _)
best_speaker(scores, best) ==
    IF scores = <<>> THEN best
    ELSE LET avg == avg_score(Head(scores)["scores"]) IN
         IF Greater(avg, best[2])
         THEN best_speaker(Tail(scores), <<Head(scores)["speaker_id"], avg>>)
         ELSE best_speaker(Tail(scores), best)

\* mutant: an empty tally is answered with a placeholder match
vote_result_never_none(scores) ==
    <<[speaker_id |-> "X", speaker_name |-> "Alice", score |-> <<0, 1>>, num_matches |-> 0]>>

\* lines 333-352: the return value, <<>> for None
vote_result(scores) ==
    IF scores = <<>> THEN <<>>
    ELSE LET best == best_speaker(scores, <<None, <<0, 1>>>>) IN
         IF best[1] # None
         THEN LET entry == scores[IndexOf(scores, best[1])] IN
              <<[speaker_id |-> entry["info"]["speaker_id"],
                 speaker_name |-> entry["info"]["speaker_name"],
                 score |-> best[2],
                 num_matches |-> Len(entry["scores"])]>>
         ELSE <<>>

(***************************************************************************)
(* EmbeddingService.extract_embeddings_for_segments and the /identify      *)
(* endpoint                                                                *)
(***************************************************************************)
\* main.py:447  min_duration=0.5
MinIdentifyDuration == 500

\* main.py:269, 536  min_duration=1.0
MinEnrollDuration == 1000

\* mutant: no segment is skipped for its duration
every_segment(segs, min_duration) == segs

\* embedding.py:196-200: the segments long enough to be embedded
long_enough(segs, min_duration) ==
    SelectSeq(segs, LAMBDA seg : ~(seg["end"] - seg["start"] < min_duration))

\* subsequences of a list: the segments whose extraction did not raise
\* (embedding.py:202-211 skips a segment whose extraction raises)
RECURSIVE SubSeqs(_)
SubSeqs(xs) ==
    IF xs = <<>> THEN {<<>>}
    ELSE LET rest == SubSeqs(Tail(xs)) IN rest \cup {<<Head(xs)>> \o r : r \in rest}

\* main.py:431-436: the speakers in order of first appearance
RECURSIVE speakers_in_order(_, _)
speakers_in_order(segs, seen) ==
    IF segs = <<>> THEN seen
    ELSE IF \E i \in DOMAIN seen : seen[i] = Head(segs)["speaker"]
         THEN speakers_in_order(Tail(segs), seen)
         ELSE speakers_in_order(Tail(segs), Append(seen, Head(segs)["speaker"]))

segments_of(segs, spk) == SelectSeq(segs, LAMBDA seg : seg["speaker"] = spk)

\* d[k] = v on a dict
Put(d, k, v) == [x \in DOMAIN d \cup {k} |-> IF x = k THEN v ELSE d[x]]

\* consecutive segments with the given speakers and durations
RECURSIVE Consecutive(_, _)
Consecutive(parts, from) ==
    IF parts = <<>> THEN <<>>
    ELSE <<Segment(Head(parts)[1], from, from + Head(parts)[2])>>
            \o Consecutive(Tail(parts), from + Head(parts)[2])

\* the diarizations of a request to identify: up to MaxEmbeddings segments,
\* each shorter or not than the minimum duration
IdentifySegLists ==
    {Consecutive(parts, 0) :
        parts \in UNION {[1..n -> Speakers \X {Step, 2 * Step}] : n \in 0..MaxEmbeddings}}

(***************************************************************************)
(* Inputs of merge                                                         *)
(***************************************************************************)
WordTexts == {<<" ">>, <<"a">>, <<" ", "b">>}

\* a Whisper word; a Whisper segment without word timestamps has the same
\* span and carries its text under "text"
Word(txt, s) == [word |-> txt, start |-> s, end |-> s + Step]

Tokens == {Word(txt, s) : txt \in WordTexts, s \in Times}

\* Whisper lists its words in time order, one after the other
Chronological(ws) == \A i \in 1..(Len(ws) - 1) : ws[i]["start"] < ws[i + 1]["start"]

TokenLists(n) == {ws \in UNION {[1..k -> Tokens] : k \in 0..n} : Chronological(ws)}

PlainTokenLists(n) == {ws \in TokenLists(n) : \A i \in DOMAIN ws : ws[i]["word"] = <<"a">>}

TextSegment(w) == [text |-> w["word"], start |-> w["start"], end |-> w["end"]]

\* the full text Whisper reports, when it reports one
ReportedText == <<"t">>

FullTexts == {<<>>, ReportedText}

\* the audio duration Whisper reports: the end of the last possible word
ReportedDuration == Step * (MaxTick + 1)

\* shapes of a Whisper response holding the tokens ws
WhisperShapes(ws, txt) ==
    LET base == [text |-> txt, language |-> "en", duration |-> ReportedDuration]
        nested == IF ws = <<>> THEN <<>>
                  ELSE <<[text |-> <<"a">>, start |-> ws[1]["start"],
                          end |-> Last(ws)["end"], words |-> ws]>>
        flat == [i \in DOMAIN ws |-> TextSegment(ws[i])]
    IN  [top |-> [words |-> ws, segments |-> <<>>] @@ base,
         nested |-> [segments |-> nested] @@ base,
         nested_empty |-> [words |-> <<>>, segments |-> nested] @@ base,
         flat |-> [segments |-> flat] @@ base,
         flat_empty |-> [words |-> <<>>, segments |-> flat] @@ base]

WithoutKey(d, k) == [x \in DOMAIN d \ {k} |-> d[x]]

MergeSegments == {Segment(spk, s, s + 2 * Step) : spk \in Speakers, s \in Times}

MergeSegLists(n) == UNION {[1..k -> MergeSegments] : k \in 0..n}

\* a diarization result as diarize returns it (diarization.py:160-166)
DiarizationResult(segs) ==
    [segments |-> segs,
     num_speakers |-> Cardinality({segs[i]["speaker"] : i \in DOMAIN segs}),
     audio_duration |-> ReportedDuration + 1]

Names == {None, "Alice"}

Scores == {NoScore, <<90>>}

\* dicts from some speaker labels to the given values, the empty dict included
Dicts(values) == UNION {[K -> values] : K \in SUBSET Speakers}

\* the four arguments of one call
MergeCall(wr, dr, mapping, confidences) ==
    /\ whisper_result = wr
    /\ diarization_result = dr
    /\ speaker_mapping = mapping
    /\ speaker_confidences = confidences

\* word-level responses over every diarization, no identification
WordLevelCalls ==
    \E ws \in TokenLists(MaxWords), txt \in FullTexts, segs \in MergeSegLists(MaxMergeSegs) :
        MergeCall(WhisperShapes(ws, txt)["top"], DiarizationResult(segs), NoDict, NoDict)

\* every response shape, with and without a reported duration and speaker count
ShapeCalls ==
    \E ws \in TokenLists(MaxWords - 1), txt \in FullTexts,
       shape \in {"top", "nested", "nested_empty", "flat", "flat_empty"},
       segs \in MergeSegLists(MaxMergeSegs - 1), dur \in BOOLEAN, cnt \in BOOLEAN :
        MergeCall(IF dur THEN WhisperShapes(ws, txt)[shape]
                         ELSE WithoutKey(WhisperShapes(ws, txt)[shape], "duration"),
                  IF cnt THEN DiarizationResult(segs)
                         ELSE WithoutKey(DiarizationResult(segs), "num_speakers"),
                  NoDict, NoDict)

\* every pair of identity mapping and confidence map
IdentifiedCalls ==
    \E ws \in PlainTokenLists(MaxWords - 1), shape \in {"top", "flat"},
       segs \in MergeSegLists(MaxMergeSegs - 1),
       mapping \in Dicts(Names), confidences \in Dicts(Scores) :
        MergeCall(WhisperShapes(ws, ReportedText)[shape], DiarizationResult(segs),
                  mapping, confidences)

\* a word twice as long: its midpoint lies on the grid of segment boundaries
WideWord(s) == [word |-> <<"a">>, start |-> s, end |-> s + 2 * Step]

WideTokenLists(n) ==
    {ws \in UNION {[1..k -> {WideWord(s) : s \in Times}] : k \in 1..n} : Chronological(ws)}

\* long words, whose midpoint may lie exactly the tolerance away from a segment
WideWordCalls ==
    \E ws \in WideTokenLists(MaxWords - 1), segs \in MergeSegLists(MaxMergeSegs - 1) :
        MergeCall(WhisperShapes(ws, ReportedText)["top"], DiarizationResult(segs),
                  NoDict, NoDict)

(***************************************************************************)
(* SpeakerDBService on the Qdrant collection, and the speaker endpoints    *)
(*   A point is its id and its payload.  The collection is a server of its *)
(*   own: each call of the client is one step, and the calls of different  *)
(*   requests interleave.                                                  *)
(***************************************************************************)
\* str(uuid.uuid4()): the k-th value drawn, different from every other
uuid4(k) == "u" \o ToString(k)

\* the collection before the requests: the points of Store
InitialPoints ==
    {[point_id |-> "p" \o ToString(i), speaker_id |-> Store[i]["speaker_id"],
      speaker_name |-> Store[i]["speaker_name"]] : i \in DOMAIN Store}

points_of(points, speaker_id) == {pt \in points : pt["speaker_id"] = speaker_id}

\* speaker_db.py:395-444, <<>> for None
get_speaker_by_id(points, speaker_id) ==
    LET results == points_of(points, speaker_id) IN
    IF results = {} THEN <<>>
    ELSE <<[speaker_id |-> speaker_id,
            speaker_name |-> (CHOOSE pt \in results : TRUE)["speaker_name"],
            embeddings_count |-> Cardinality(results)]>>

\* speaker_db.py:354-393: the ids of the listed speakers
get_all_speakers(points) == {pt["speaker_id"] : pt \in points}

\* speaker_db.py:377-388, main.py:325-337: embeddings_count of each listed speaker
list_speakers(points) ==
    [speaker_id \in get_all_speakers(points) |-> Cardinality(points_of(points, speaker_id))]

\* client.upsert: a point replaces the point of the same id
upsert(points, new) ==
    {pt \in points : \A n \in new : n["point_id"] # pt["point_id"]} \cup new

\* mutant: the delete removes one point of the speaker
delete_one_point(points, speaker_id) ==
    points \ {CHOOSE pt \in points_of(points, speaker_id) : TRUE}

\* client.delete with the speaker_id filter (speaker_db.py:464-476)
delete_points(points, speaker_id) == points \ points_of(points, speaker_id)

\* mutant: the id of a new speaker is made from the display name
speaker_id_from_name(k, speaker_name) == "id-" \o speaker_name

\* speaker_db.py:137-138, 191-192: a registration passes no speaker_id
new_speaker_id(k, speaker_name) == uuid4(k)

\* the points of one upsert (speaker_db.py:136-162, 194-213): point ids are
\* the uuids after the first drawn
new_points(speaker_id, speaker_name, first, n) ==
    {[point_id |-> uuid4(first + i), speaker_id |-> speaker_id,
      speaker_name |-> speaker_name] : i \in 1..n}

Request(op, speaker_id, speaker_name, count) ==
    [op |-> op, pc |-> "received", speaker_id |-> speaker_id, speaker_name |-> speaker_name,
     count |-> count, points |-> {}, result |-> None]

\* the requests served: registrations (one embedding, or two from segments),
\* a sample added to the stored speaker X, deletions of X and of an unknown id
RequestKinds ==
    {Request("register", None, "Alice", 1), Request("register", None, "Alice", 2),
     Request("register", None, "Bob", 1), Request("add_sample", "X", None, 1),
     Request("delete", "X", None, 0), Request("delete", "Z", None, 0)}

UploadIdle ==
    /\ uploads = <<>>
    /\ upload_dir = {}

(***************************************************************************)
(* Specification SpecDiar: one diarization in exclusive mode, then one     *)
(* speaker lookup on its timeline                                          *)
(***************************************************************************)
DiarIdle ==
    /\ segments = <<>>
    /\ exclusive = <<>>
    /\ timestamp = 0
    /\ speaker = None

MergeIdle ==
    /\ whisper_result = <<>>
    /\ diarization_result = <<>>
    /\ speaker_mapping = NoDict
    /\ speaker_confidences = NoDict
    /\ turn_words = <<>>
    /\ merged = <<>>

IdentIdle ==
    /\ settings_threshold = DefaultThreshold
    /\ similarity_threshold = NoScore
    /\ speaker_segments = <<>>
    /\ embeddings = <<>>
    /\ queries = <<>>
    /\ search_results = <<>>
    /\ speaker_scores = <<>>
    /\ match = <<>>
    /\ extracted = NoDict
    /\ id_mapping = NoDict
    /\ id_confidences = NoDict

StoreIdle ==
    /\ store = InitialPoints
    /\ requests = <<>>
    /\ uuids = 0

DiarInit ==
    /\ pc = "start"
    /\ DiarIdle
    /\ MergeIdle
    /\ IdentIdle
    /\ StoreIdle
    /\ UploadIdle

\* DiarizationService.diarize(exclusive=True): the pipeline's tracks, then
\* _make_exclusive
Diarize ==
    /\ pc = "start"
    /\ \E segs \in SegLists :
          /\ segments' = segs
          /\ exclusive' = _make_exclusive(segs)
    /\ pc' = "diarized"
    /\ UNCHANGED <<timestamp, speaker>>
    /\ UNCHANGED <<mergeVars, identVars>>
    /\ UNCHANGED <<storeVars, uploadVars>>

FindSpeakerAtTime ==
    /\ pc = "diarized"
    /\ \E t \in TimeStamps :
          /\ timestamp' = t
          /\ speaker' = _find_speaker_at_time(t, exclusive)
    /\ pc' = "found"
    /\ UNCHANGED <<segments, exclusive>>
    /\ UNCHANGED <<mergeVars, identVars>>
    /\ UNCHANGED <<storeVars, uploadVars>>

DiarNext == Diarize \/ FindSpeakerAtTime

SpecDiar == DiarInit /\ [][DiarNext]_vars

(***************************************************************************)
(* Specification SpecMerge: one call of                                    *)
(* TranscriptMerger.merge_transcription_with_diarization, one action per   *)
(* return statement                                                        *)
(***************************************************************************)
MergeInit ==
    /\ pc = "call"
    /\ DiarIdle
    /\ IdentIdle
    /\ (WordLevelCalls \/ ShapeCalls \/ IdentifiedCalls \/ WideWordCalls)
    /\ turn_words = <<>>
    /\ merged = <<>>
    /\ StoreIdle
    /\ UploadIdle

\* lines 43-47: no words at all, fall back to segment-level alignment
MergeSegmentLevel ==
    /\ pc = "call"
    /\ extract_words(whisper_result) = <<>>
    /\ merged' = _merge_segment_level(whisper_result, diarization_result,
                                      speaker_mapping, speaker_confidences)
    /\ whisper_result' = whisper_result_after(whisper_result)
    /\ turn_words' = <<>>
    /\ pc' = "segment_level"
    /\ UNCHANGED <<diarization_result, speaker_mapping, speaker_confidences>>
    /\ UNCHANGED <<diarVars, identVars>>
    /\ UNCHANGED <<storeVars, uploadVars>>

\* lines 52-67: words, but no diarization segments
MergeNoDiarization ==
    /\ pc = "call"
    /\ extract_words(whisper_result) # <<>>
    /\ Get(diarization_result, "segments", <<>>) = <<>>
    /\ merged' = single_speaker_result(whisper_result, extract_words(whisper_result),
                                       speaker_mapping, speaker_confidences)
    /\ whisper_result' = whisper_result_after(whisper_result)
    /\ turn_words' = <<>>
    /\ pc' = "no_diarization"
    /\ UNCHANGED <<diarization_result, speaker_mapping, speaker_confidences>>
    /\ UNCHANGED <<diarVars, identVars>>
    /\ UNCHANGED <<storeVars, uploadVars>>

\* lines 69-94: assign, group, annotate
MergeWordLevel ==
    /\ pc = "call"
    /\ extract_words(whisper_result) # <<>>
    /\ Get(diarization_result, "segments", <<>>) # <<>>
    /\ LET words == extract_words(whisper_result)
           word_assignments == _assign_words_to_speakers(words, diarization_result["segments"])
           turns == turns_with_words(word_assignments)
       IN  /\ merged' = word_level_result(whisper_result, diarization_result, words,
                                          speaker_mapping, speaker_confidences)
           /\ turn_words' = [i \in DOMAIN turns |-> turns[i]["words"]]
    /\ whisper_result' = whisper_result_after(whisper_result)
    /\ pc' = "word_level"
    /\ UNCHANGED <<diarization_result, speaker_mapping, speaker_confidences>>
    /\ UNCHANGED <<diarVars, identVars>>
    /\ UNCHANGED <<storeVars, uploadVars>>

MergeNext == MergeSegmentLevel \/ MergeNoDiarization \/ MergeWordLevel

SpecMerge == MergeInit /\ [][MergeNext]_vars


(***************************************************************************)
(* Specification SpecIdentify: one request to /identify (main.py:415-492), *)
(* or one direct call of identify_speaker_by_voting                        *)
(***************************************************************************)
IdentifyInit ==
    /\ pc = "request"
    /\ DiarIdle
    /\ MergeIdle
    /\ settings_threshold \in {0, DefaultThreshold}
    /\ similarity_threshold \in {NoScore, <<0>>, <<90>>}
    /\ speaker_segments = <<>>
    /\ embeddings = <<>>
    /\ queries = <<>>
    /\ search_results = <<>>
    /\ speaker_scores = <<>>
    /\ match = <<>>
    /\ extracted = NoDict
    /\ id_mapping = NoDict
    /\ id_confidences = NoDict
    /\ StoreIdle
    /\ UploadIdle

\* main.py:422-436: diarize in exclusive mode and group the segments by speaker
IdentifyDiarize ==
    /\ pc = "request"
    /\ \E segs \in IdentifySegLists :
          /\ segments' = segs
          /\ exclusive' = _make_exclusive(segs)
          /\ speaker_segments' = speakers_in_order(_make_exclusive(segs), <<>>)
    /\ pc' = "speakers"
    /\ UNCHANGED <<timestamp, speaker, mergeVars, settings_threshold, similarity_threshold,
                   embeddings, queries, search_results, speaker_scores, match, extracted,
                   id_mapping, id_confidences>>
    /\ UNCHANGED <<storeVars, uploadVars>>

\* main.py:422: the diarization raises; the handler answers 500 (lines 494-496)
IdentifyDiarizeFails ==
    /\ pc = "request"
    /\ pc' = "error"
    /\ UNCHANGED <<diarVars, mergeVars, identVars>>
    /\ UNCHANGED <<storeVars, uploadVars>>

\* main.py:444-451 and 465-467: embed the segments of the next speaker; without
\* any embedding the speaker is mapped to None
ExtractEmbeddings ==
    /\ pc = "speakers"
    /\ speaker_segments # <<>>
    /\ LET spk == Head(speaker_segments) IN
       \E segment_embeddings \in
             SubSeqs(long_enough(segments_of(exclusive, spk), MinIdentifyDuration)) :
          /\ extracted' = Put(extracted, spk, segment_embeddings)
          /\ IF segment_embeddings # <<>>
             THEN /\ embeddings' = segment_embeddings
                  /\ pc' = "voting"
                  /\ UNCHANGED <<speaker_segments, id_mapping, id_confidences>>
             ELSE /\ id_mapping' = Put(id_mapping, spk, None)
                  /\ id_confidences' = Put(id_confidences, spk, NoScore)
                  /\ speaker_segments' = Tail(speaker_segments)
                  /\ embeddings' = <<>>
                  /\ pc' = "speakers"
    /\ queries' = <<>>
    /\ search_results' = <<>>
    /\ speaker_scores' = <<>>
    /\ match' = <<>>
    /\ UNCHANGED <<diarVars, mergeVars, settings_threshold, similarity_threshold>>
    /\ UNCHANGED <<storeVars, uploadVars>>

\* a direct call identify_speaker_by_voting(embeddings, score_threshold)
VoteCall ==
    /\ pc = "request"
    /\ \E n \in 0..MaxEmbeddings :
          embeddings' = [i \in 1..n |-> Segment("SPEAKER_00", 0, MinIdentifyDuration)]
    /\ pc' = "voting_direct"
    /\ UNCHANGED <<diarVars, mergeVars, settings_threshold, similarity_threshold,
                   speaker_segments, queries, search_results, speaker_scores, match, extracted,
                   id_mapping, id_confidences>>
    /\ UNCHANGED <<storeVars, uploadVars>>

Voting == pc \in {"voting", "voting_direct"}

\* speaker_db.py:317-331: one turn of the loop over embeddings
SearchSimilar ==
    /\ Voting
    /\ Len(search_results) < Len(embeddings)
    /\ LET query == search_query(TopK, similarity_threshold, settings_threshold) IN
       \E matches \in SearchAnswers[query["score_threshold"]] :
          /\ queries' = Append(queries, query)
          /\ search_results' = Append(search_results, matches)
          /\ speaker_scores' = add_matches(speaker_scores, matches)
    /\ UNCHANGED <<pc, diarVars, mergeVars, settings_threshold, similarity_threshold,
                   speaker_segments, embeddings, match, extracted, id_mapping, id_confidences>>
    /\ UNCHANGED <<storeVars, uploadVars>>

\* speaker_db.py:249: the query raises; the handler answers 500 (lines 494-496)
SearchFails ==
    /\ Voting
    /\ Len(search_results) < Len(embeddings)
    /\ pc' = "error"
    /\ UNCHANGED <<diarVars, mergeVars, identVars>>
    /\ UNCHANGED <<storeVars, uploadVars>>

\* speaker_db.py:310-311 and 333-352, then main.py:459-464
VoteReturn ==
    /\ Voting
    /\ Len(search_results) = Len(embeddings)
    /\ match' = vote_result(speaker_scores)
    /\ IF pc = "voting"
       THEN LET spk == Head(speaker_segments) IN
            /\ id_mapping' = Put(id_mapping, spk,
                                 IF match' # <<>> THEN match'[1]["speaker_name"] ELSE None)
            /\ id_confidences' = Put(id_confidences, spk,
                                     IF match' # <<>> THEN match'[1]["score"] ELSE NoScore)
            /\ speaker_segments' = Tail(speaker_segments)
            /\ pc' = "speakers"
       ELSE /\ pc' = "voted"
            /\ UNCHANGED <<speaker_segments, id_mapping, id_confidences>>
    /\ UNCHANGED <<diarVars, mergeVars, settings_threshold, similarity_threshold,
                   embeddings, queries, search_results, speaker_scores, extracted>>
    /\ UNCHANGED <<storeVars, uploadVars>>

\* main.py:469-492: every speaker handled, the response is built
IdentifyRespond ==
    /\ pc = "speakers"
    /\ speaker_segments = <<>>
    /\ pc' = "done"
    /\ UNCHANGED <<diarVars, mergeVars, identVars>>
    /\ UNCHANGED <<storeVars, uploadVars>>

IdentifyNext ==
    \/ IdentifyDiarize
    \/ IdentifyDiarizeFails
    \/ ExtractEmbeddings
    \/ VoteCall
    \/ SearchSimilar
    \/ SearchFails
    \/ VoteReturn
    \/ IdentifyRespond

SpecIdentify == IdentifyInit /\ [][IdentifyNext]_vars

(***************************************************************************)
(* Specification SpecTranscribe: one request to /transcribe-identified     *)
(* (main.py:705-813).  Its diarization and its loop over the speakers      *)
(* (lines 718-760) are those of /identify; then come the transcription,    *)
(* the merge and the response.                                             *)
(***************************************************************************)
\* the three returns of merge_transcription_with_diarization
merge_transcription_with_diarization(wr, dr, mapping, confidences) ==
    LET words == extract_words(wr) IN
    IF words = <<>> THEN _merge_segment_level(wr, dr, mapping, confidences)
    ELSE IF Get(dr, "segments", <<>>) = <<>>
         THEN single_speaker_result(wr, words, mapping, confidences)
         ELSE word_level_result(wr, dr, words, mapping, confidences)

\* turn["words"] of the turns built on the word-level path
grouped_words(wr, dr) ==
    LET words == extract_words(wr) IN
    IF words = <<>> \/ Get(dr, "segments", <<>>) = <<>> THEN <<>>
    ELSE LET turns == turns_with_words(_assign_words_to_speakers(words, dr["segments"]))
         IN  [i \in DOMAIN turns |-> turns[i]["words"]]

\* what diarize returned to the request (diarization.py:160-166): the
\* exclusive segments and the number of speakers of the raw tracks
diarize_result(raw, excl) ==
    [segments |-> excl,
     num_speakers |-> Cardinality({raw[i]["speaker"] : i \in DOMAIN raw}),
     audio_duration |-> ReportedDuration + 1]

\* whisper.py:133-149: the responses of transcribe_with_words, words at top
\* level or none at all
TranscribeResponses ==
    {WhisperShapes(ws, ReportedText)[shape] :
        ws \in PlainTokenLists(MaxWords - 2), shape \in {"top", "flat_empty"}}

\* main.py:762-767: every speaker handled, Whisper answers
Transcribe ==
    /\ pc = "speakers"
    /\ speaker_segments = <<>>
    /\ whisper_result' \in TranscribeResponses
    /\ pc' = "transcribed"
    /\ UNCHANGED <<diarization_result, speaker_mapping, speaker_confidences, turn_words, merged>>
    /\ UNCHANGED <<diarVars, identVars>>
    /\ UNCHANGED <<storeVars, uploadVars>>

\* whisper.py:109-117: the call times out or fails; the handler answers 500
\* (main.py:807-809)
TranscribeFails ==
    /\ pc = "speakers"
    /\ speaker_segments = <<>>
    /\ pc' = "error"
    /\ UNCHANGED <<diarVars, mergeVars, identVars>>
    /\ UNCHANGED <<storeVars, uploadVars>>

\* main.py:769-805: merge and return the transcript
MergeAndRespond ==
    /\ pc = "transcribed"
    /\ LET dr == diarize_result(segments, exclusive) IN
       /\ diarization_result' = dr
       /\ speaker_mapping' = id_mapping
       /\ speaker_confidences' = id_confidences
       /\ merged' = merge_transcription_with_diarization(whisper_result, dr,
                                                         id_mapping, id_confidences)
       /\ turn_words' = grouped_words(whisper_result, dr)
    /\ whisper_result' = whisper_result_after(whisper_result)
    /\ pc' = "transcript"
    /\ UNCHANGED <<diarVars, identVars>>
    /\ UNCHANGED <<storeVars, uploadVars>>

TranscribeNext ==
    \/ IdentifyDiarize
    \/ IdentifyDiarizeFails
    \/ ExtractEmbeddings
    \/ SearchSimilar
    \/ SearchFails
    \/ VoteReturn
    \/ Transcribe
    \/ TranscribeFails
    \/ MergeAndRespond

SpecTranscribe == IdentifyInit /\ [][TranscribeNext]_vars

(***************************************************************************)
(* Specification SpecStore: MaxRequests concurrent requests to the speaker *)
(* endpoints (register, add sample, delete) on one collection              *)
(***************************************************************************)
StoreInit ==
    /\ pc = "serving"
    /\ DiarIdle
    /\ MergeIdle
    /\ IdentIdle
    /\ store = InitialPoints
    /\ requests \in [1..MaxRequests -> RequestKinds]
    /\ uuids = 0
    /\ UploadIdle

\* register_speaker (main.py:256-295) up to the upsert: the ids are drawn
RegisterIds(p) ==
    /\ requests[p]["op"] = "register"
    /\ requests[p]["pc"] = "received"
    /\ LET r == requests[p]
           speaker_id == new_speaker_id(uuids + 1, r["speaker_name"])
       IN  requests' = [requests EXCEPT
                          ![p]["speaker_id"] = speaker_id,
                          ![p]["points"] = new_points(speaker_id, r["speaker_name"],
                                                      uuids + 1, r["count"]),
                          ![p]["pc"] = "upsert"]
    /\ uuids' = uuids + 1 + requests[p]["count"]
    /\ UNCHANGED <<pc, store, diarVars, mergeVars, identVars, uploadVars>>

\* speaker_db.py:155-164, 216-219, then main.py:299-304
RegisterUpsert(p) ==
    /\ requests[p]["op"] = "register"
    /\ requests[p]["pc"] = "upsert"
    /\ store' = upsert(store, requests[p]["points"])
    /\ requests' = [requests EXCEPT ![p]["pc"] = "done", ![p]["result"] = "registered"]
    /\ UNCHANGED <<pc, uuids, diarVars, mergeVars, identVars, uploadVars>>

\* add_speaker_sample, main.py:519-524: the existence check, then the upload
\* is awaited
AddSampleCheck(p) ==
    /\ requests[p]["op"] = "add_sample"
    /\ requests[p]["pc"] = "received"
    /\ LET speaker_info == get_speaker_by_id(store, requests[p]["speaker_id"]) IN
       requests' = IF speaker_info = <<>>
                   THEN [requests EXCEPT ![p]["pc"] = "done", ![p]["result"] = "not_found"]
                   ELSE [requests EXCEPT ![p]["pc"] = "upsert",
                                         ![p]["speaker_name"] = speaker_info[1]["speaker_name"]]
    /\ UNCHANGED <<pc, store, uuids, diarVars, mergeVars, identVars, uploadVars>>

\* main.py:555-562: the embedding is stored under the speaker_id of the request
AddSampleUpsert(p) ==
    /\ requests[p]["op"] = "add_sample"
    /\ requests[p]["pc"] = "upsert"
    /\ LET r == requests[p]
           new == new_points(r["speaker_id"], r["speaker_name"], uuids, r["count"])
       IN  /\ store' = upsert(store, new)
           /\ requests' = [requests EXCEPT ![p]["points"] = new, ![p]["pc"] = "refresh"]
    /\ uuids' = uuids + requests[p]["count"]
    /\ UNCHANGED <<pc, diarVars, mergeVars, identVars, uploadVars>>

\* main.py:567-580: the speaker is read again; subscripting None raises and
\* the handler answers 500
AddSampleRespond(p) ==
    /\ requests[p]["op"] = "add_sample"
    /\ requests[p]["pc"] = "refresh"
    /\ requests' = [requests EXCEPT
                      ![p]["pc"] = "done",
                      ![p]["result"] =
                          IF get_speaker_by_id(store, requests[p]["speaker_id"]) = <<>>
                          THEN "error" ELSE "added"]
    /\ UNCHANGED <<pc, store, uuids, diarVars, mergeVars, identVars, uploadVars>>

\* delete_speaker, speaker_db.py:459-461: the existence check
DeleteCheck(p) ==
    /\ requests[p]["op"] = "delete"
    /\ requests[p]["pc"] = "received"
    /\ requests' = IF get_speaker_by_id(store, requests[p]["speaker_id"]) = <<>>
                   THEN [requests EXCEPT ![p]["pc"] = "done", ![p]["result"] = "not_found"]
                   ELSE [requests EXCEPT ![p]["pc"] = "delete"]
    /\ UNCHANGED <<pc, store, uuids, diarVars, mergeVars, identVars, uploadVars>>

\* speaker_db.py:464-480, then main.py:382
DeletePoints(p) ==
    /\ requests[p]["op"] = "delete"
    /\ requests[p]["pc"] = "delete"
    /\ store' = delete_points(store, requests[p]["speaker_id"])
    /\ requests' = [requests EXCEPT ![p]["pc"] = "done", ![p]["result"] = "deleted"]
    /\ UNCHANGED <<pc, uuids, diarVars, mergeVars, identVars, uploadVars>>

StoreNext ==
    \E p \in 1..MaxRequests :
        \/ RegisterIds(p)
        \/ RegisterUpsert(p)
        \/ AddSampleCheck(p)
        \/ AddSampleUpsert(p)
        \/ AddSampleRespond(p)
        \/ DeleteCheck(p)
        \/ DeletePoints(p)

SpecStore == StoreInit /\ [][StoreNext]_vars

(***************************************************************************)
(* Specification SpecUpload: MaxUploads concurrent requests to the         *)
(* endpoints that take an upload (main.py:178-230, 235-314, 393-500,       *)
(* 503-584, 589-679, 682-813), followed through their temporary file       *)
(***************************************************************************)
Endpoints ==
    {"diarize", "register", "identify", "add_sample", "transcribe_diarized",
     "transcribe_identified"}

Upload(endpoint, supported, known) ==
    [endpoint |-> endpoint, supported |-> supported, known |-> known, pc |-> "received",
     filepath |-> None, status |-> 0, warned |-> FALSE]

\* the uploads: a file name of a supported format or not, and for
\* add_speaker_sample a speaker that is stored or not
UploadKinds ==
    {Upload(endpoint, supported, TRUE) : endpoint \in Endpoints, supported \in BOOLEAN}
        \cup {Upload("add_sample", TRUE, FALSE)}

\* the HTTP status a handler may answer once the upload is saved: 200, 500
\* for any exception, and the 400 of an enrollment without usable segment
Statuses(endpoint) ==
    {200, 500} \cup (IF endpoint \in {"register", "add_sample"} THEN {400} ELSE {})

\* mutant: the file is left where it is
cleanup_skipped(dir, filepath, removed) == dir

\* main.py:131-137: the file, if it exists, is removed unless os.remove raises
cleanup_file(dir, filepath, removed) ==
    IF filepath \in dir /\ removed THEN dir \ {filepath} ELSE dir

UploadInit ==
    /\ pc = "serving"
    /\ DiarIdle
    /\ MergeIdle
    /\ IdentIdle
    /\ StoreIdle
    /\ uploads \in [1..MaxUploads -> UploadKinds]
    /\ upload_dir = {}

\* validate_audio_file before the try (main.py:197, 251, 412, 514, 607, 702),
\* and the check of add_speaker_sample inside it (lines 519-521)
UploadValidate(p) ==
    /\ uploads[p]["pc"] = "received"
    /\ uploads' = IF ~uploads[p]["supported"]
                  THEN [uploads EXCEPT ![p]["pc"] = "completed", ![p]["status"] = 400]
                  ELSE IF uploads[p]["endpoint"] = "add_sample" /\ ~uploads[p]["known"]
                  THEN [uploads EXCEPT ![p]["pc"] = "finally", ![p]["status"] = 404]
                  ELSE [uploads EXCEPT ![p]["pc"] = "save"]
    /\ UNCHANGED <<pc, upload_dir, diarVars, mergeVars, identVars, storeVars>>

\* filepath = await save_upload_file(file)  (main.py:119-128)
UploadSave(p) ==
    /\ uploads[p]["pc"] = "save"
    /\ LET filename == uuid4(uuids + 1) IN
       /\ upload_dir' = upload_dir \cup {filename}
       /\ uploads' = [uploads EXCEPT ![p]["pc"] = "process", ![p]["filepath"] = filename]
    /\ uuids' = uuids + 1
    /\ UNCHANGED <<pc, store, requests, diarVars, mergeVars, identVars>>

\* save_upload_file raises, in open() or later in copyfileobj(): filepath
\* stays None and the handler answers 500
UploadSaveFails(p) ==
    /\ uploads[p]["pc"] = "save"
    /\ \E opened \in BOOLEAN :
          upload_dir' = IF opened THEN upload_dir \cup {uuid4(uuids + 1)} ELSE upload_dir
    /\ uploads' = [uploads EXCEPT ![p]["pc"] = "finally", ![p]["status"] = 500]
    /\ uuids' = uuids + 1
    /\ UNCHANGED <<pc, store, requests, diarVars, mergeVars, identVars>>

\* the rest of the try block: the response is built or a step raises
UploadProcess(p) ==
    /\ uploads[p]["pc"] = "process"
    /\ \E status \in Statuses(uploads[p]["endpoint"]) :
          uploads' = [uploads EXCEPT ![p]["pc"] = "finally", ![p]["status"] = status]
    /\ UNCHANGED <<pc, upload_dir, diarVars, mergeVars, identVars, storeVars>>

\* finally: if filepath: cleanup_file(filepath); a failure of os.remove is
\* logged as a warning
UploadCleanup(p) ==
    /\ uploads[p]["pc"] = "finally"
    /\ LET filepath == uploads[p]["filepath"] IN
       IF filepath # None
       THEN \E removed \in BOOLEAN :
               /\ upload_dir' = cleanup_file(upload_dir, filepath, removed)
               /\ uploads' = [uploads EXCEPT ![p]["pc"] = "completed",
                                             ![p]["warned"] = ~removed]
       ELSE /\ uploads' = [uploads EXCEPT ![p]["pc"] = "completed"]
            /\ UNCHANGED upload_dir
    /\ UNCHANGED <<pc, diarVars, mergeVars, identVars, storeVars>>

UploadNext ==
    \E p \in 1..MaxUploads :
        \/ UploadValidate(p)
        \/ UploadSave(p)
        \/ UploadSaveFails(p)
        \/ UploadProcess(p)
        \/ UploadCleanup(p)

SpecUpload == UploadInit /\ [][UploadNext]_vars

(***************************************************************************)
(* Specification SpecSerial: the requests of SpecStore served one at a     *)
(* time, in their order                                                    *)
(***************************************************************************)
\* request p is being served or is next to be served
Serving(p) ==
    /\ \A q \in 1..(p - 1) : requests[q]["pc"] = "done"
    /\ \A q \in (p + 1)..MaxRequests : requests[q]["pc"] = "received"

SerialNext ==
    \E p \in 1..MaxRequests :
        /\ Serving(p)
        /\ \/ RegisterIds(p)
           \/ RegisterUpsert(p)
           \/ AddSampleCheck(p)
           \/ AddSampleUpsert(p)
           \/ AddSampleRespond(p)
           \/ DeleteCheck(p)
           \/ DeletePoints(p)

SpecSerial == StoreInit /\ [][SerialNext]_vars

(***************************************************************************)
(* Specification SpecExtract: one request that extracts embeddings from    *)
(* diarization segments: an identification (main.py:415-492), or an        *)
(* enrollment with extract_segments, by register_speaker (main.py:254-314) *)
(* or add_speaker_sample (main.py:517-584)                                 *)
(***************************************************************************)
\* the diarizations of an enrollment (num_speakers=1, not exclusive): up to
\* MaxEmbeddings segments around the minimum duration
EnrollSegLists ==
    {Consecutive(parts, 0) :
        parts \in UNION {[1..n -> {"SPEAKER_00"} \X {2 * Step, 3 * Step, 4 * Step}] :
                             n \in 0..MaxEmbeddings}}

\* a registration of Alice, samples added to the stored speaker X and to an
\* unknown speaker Z
EnrollKinds ==
    {Request("register", None, "Alice", 0), Request("add_sample", "X", None, 0),
     Request("add_sample", "Z", None, 0)}

\* main.py:256-263 and 519-530: add_speaker_sample answers 404 for an unknown
\* speaker; otherwise the upload is diarized
EnrollDiarize ==
    /\ pc = "request"
    /\ \E r \in EnrollKinds :
          LET speaker_info == get_speaker_by_id(store, r["speaker_id"]) IN
          IF r["op"] = "add_sample" /\ speaker_info = <<>>
          THEN /\ requests' = <<[r EXCEPT !["pc"] = "done", !["result"] = "not_found"]>>
               /\ pc' = "not_found"
               /\ UNCHANGED segments
          ELSE /\ requests' = <<[r EXCEPT !["pc"] = "extract",
                                          !["speaker_name"] =
                                              IF r["op"] = "add_sample"
                                              THEN speaker_info[1]["speaker_name"]
                                              ELSE r["speaker_name"]]>>
               /\ \E segs \in EnrollSegLists : segments' = segs
               /\ pc' = "enroll"
    /\ UNCHANGED <<exclusive, timestamp, speaker, mergeVars, identVars, store, uuids,
                   uploadVars>>

\* main.py:266-284 and 533-551, speaker_db.py:191-219: the embeddings of the
\* segments long enough are stored in one upsert; without any the handler
\* answers 400
EnrollExtract ==
    /\ pc = "enroll"
    /\ \E segment_embeddings \in SubSeqs(long_enough(segments, MinEnrollDuration)) :
          IF segment_embeddings = <<>>
          THEN /\ requests' = [requests EXCEPT ![1]["pc"] = "done", ![1]["result"] = "rejected"]
               /\ pc' = "rejected"
               /\ UNCHANGED <<embeddings, store, uuids>>
          ELSE LET r == requests[1]
                   drawn == IF r["speaker_id"] = None THEN uuids + 1 ELSE uuids
                   speaker_id == IF r["speaker_id"] = None
                                 THEN new_speaker_id(uuids + 1, r["speaker_name"])
                                 ELSE r["speaker_id"]
                   new == new_points(speaker_id, r["speaker_name"], drawn,
                                     Len(segment_embeddings))
               IN  /\ embeddings' = segment_embeddings
                   /\ store' = upsert(store, new)
                   /\ uuids' = drawn + Len(segment_embeddings)
                   /\ requests' = [requests EXCEPT
                                     ![1]["speaker_id"] = speaker_id,
                                     ![1]["count"] = Len(segment_embeddings),
                                     ![1]["points"] = new,
                                     ![1]["pc"] = "done",
                                     ![1]["result"] = IF r["op"] = "register"
                                                      THEN "registered" ELSE "added"]
                   /\ pc' = "enrolled"
    /\ UNCHANGED <<diarVars, mergeVars, settings_threshold, similarity_threshold,
                   speaker_segments, queries, search_results, speaker_scores, match,
                   extracted, id_mapping, id_confidences, uploadVars>>

ExtractNext ==
    \/ IdentifyDiarize
    \/ IdentifyDiarizeFails
    \/ ExtractEmbeddings
    \/ SearchSimilar
    \/ SearchFails
    \/ VoteReturn
    \/ IdentifyRespond
    \/ EnrollDiarize
    \/ EnrollExtract

SpecExtract == IdentifyInit /\ [][ExtractNext]_vars

(***************************************************************************)
(* Specification SpecSpans: the producers hand on spans of any shape, also *)
(* with end < start; the diarization tracks are either made exclusive      *)
(* (diarize in exclusive mode) or merged with the transcription            *)
(***************************************************************************)
\* a track as the pipeline may report it, end before start included
AnySegments == {Segment(spk, s, e) : spk \in Speakers, s \in Times, e \in Times}

AnySegLists(n) == UNION {[1..k -> AnySegments] : k \in 0..n}

\* at most one Whisper token, of any span
AnyTokenLists ==
    {<<>>} \cup {<<[word |-> <<"a">>, start |-> s, end |-> e]>> : s \in Times, e \in Times}

SpanCalls ==
    \E ws \in AnyTokenLists, shape \in {"top", "flat"}, segs \in AnySegLists(MaxMergeSegs) :
        MergeCall(WhisperShapes(ws, ReportedText)[shape], DiarizationResult(segs),
                  NoDict, NoDict)

SpansInit ==
    /\ pc = "call"
    /\ DiarIdle
    /\ IdentIdle
    /\ SpanCalls
    /\ turn_words = <<>>
    /\ merged = <<>>
    /\ StoreIdle
    /\ UploadIdle

\* diarization.py:145-156: the tracks become the segments, then _make_exclusive
ExclusivizeTracks ==
    /\ pc = "call"
    /\ segments' = diarization_result["segments"]
    /\ exclusive' = _make_exclusive(diarization_result["segments"])
    /\ pc' = "diarized"
    /\ UNCHANGED <<timestamp, speaker>>
    /\ UNCHANGED <<mergeVars, identVars>>
    /\ UNCHANGED <<storeVars, uploadVars>>

SpansNext == ExclusivizeTracks \/ MergeSegmentLevel \/ MergeNoDiarization \/ MergeWordLevel

SpecSpans == SpansInit /\ [][SpansNext]_vars

(***************************************************************************)
(* Properties of SpecDiar                                                  *)
(***************************************************************************)
Overlapping(a, b) == a["start"] < b["end"] /\ b["start"] < a["end"]

\* the input is out of order somewhere and two of its segments overlap
UnorderedOverlappingInput ==
    /\ \E i, j \in DOMAIN segments : i < j /\ segments[j]["start"] < segments[i]["start"]
    /\ \E i, j \in DOMAIN segments : i # j /\ Overlapping(segments[i], segments[j])

\* C1: whatever segments the pipeline yields (any order, any overlaps), the
\* list _make_exclusive returns is ascending by start and each segment ends
\* no later than the next one starts.
C1_SortedNonOverlapping ==
    pc # "start" =>
        \A i \in 1..(Len(exclusive) - 1) :
            /\ exclusive[i]["start"] <= exclusive[i + 1]["start"]
            /\ exclusive[i]["end"] <= exclusive[i + 1]["start"]

\* C1 witness: an unordered, overlapping input of three segments, one of
\* which was dropped and one truncated
C1_Witness ==
    /\ pc = "diarized"
    /\ UnorderedOverlappingInput
    /\ Len(segments) = 3
    /\ Len(exclusive) = 2
    /\ exclusive[1]["end"] = exclusive[2]["start"]
    /\ \A i \in DOMAIN segments : segments[i] # exclusive[1]

\* C2: _make_exclusive applied to its own output returns that output, segment
\* for segment (speaker, start, end, duration).
C2_Idempotent ==
    pc # "start" => _make_exclusive(exclusive) = exclusive

\* C2 witness: the first pass reordered and truncated, so its output differs
\* from its input
C2_Witness ==
    /\ pc = "diarized"
    /\ UnorderedOverlappingInput
    /\ Len(exclusive) >= 2
    /\ \E i \in DOMAIN exclusive : \A j \in DOMAIN segments : segments[j] # exclusive[i]

\* C3: for a timeline returned by _make_exclusive, a timestamp strictly inside
\* one of its segments is answered with that segment's speaker.
C3_StrictlyInsideFindsSegment ==
    pc = "found" =>
        \A i \in DOMAIN exclusive :
            (exclusive[i]["start"] < timestamp /\ timestamp < exclusive[i]["end"])
                => speaker = exclusive[i]["speaker"]

\* C3 witness: the timestamp is strictly inside a segment that is not the first
\* of the timeline and that overlapped a segment of another speaker in the input
C3_Witness ==
    /\ pc = "found"
    /\ \E i \in DOMAIN exclusive :
          /\ i > 1
          /\ exclusive[i]["start"] < timestamp /\ timestamp < exclusive[i]["end"]
          /\ speaker = exclusive[i]["speaker"]
          /\ \E j \in DOMAIN segments :
                /\ segments[j]["speaker"] # exclusive[i]["speaker"]
                /\ segments[j]["start"] < timestamp /\ timestamp < segments[j]["end"]

\* the segment covers the instant t (its end excluded)
Covers(seg, t) == seg["start"] <= t /\ t < seg["end"]

Covering(segs, t) == {i \in DOMAIN segs : Covers(segs[i], t)}

\* the input segment covering t that starts latest, the last in input order
\* among those of that start
LatestCovering(segs, t) ==
    CHOOSE i \in Covering(segs, t) :
        \A j \in Covering(segs, t) :
            \/ segs[j]["start"] < segs[i]["start"]
            \/ (segs[j]["start"] = segs[i]["start"] /\ j <= i)

\* an instant covered by two or more input segments
Contested(t) == Cardinality(Covering(segments, t)) >= 2

Containing(segs, t) ==
    {i \in DOMAIN segs : segs[i]["start"] <= t /\ t <= segs[i]["end"]}

Reverse(xs) == [i \in DOMAIN xs |-> xs[Len(xs) + 1 - i]]

\* C22 (as claimed): on a timeline returned by _make_exclusive at most one
\* segment has start <= t <= end, whatever t, and the speaker found for a
\* contained t is the same when the segments are listed in another order.
C22_ContainmentIsUnambiguous ==
    pc = "found" =>
        /\ Cardinality(Containing(exclusive, timestamp)) <= 1
        /\ Containing(exclusive, timestamp) # {} =>
              _find_speaker_at_time(timestamp, Reverse(exclusive)) = speaker

\* C22 (amended): on a timeline returned by _make_exclusive two segments
\* both have start <= t <= end only when t is the end of the earlier and the
\* start of the later one; the speaker found for a contained t is that of the
\* first such segment of the list, and it is the same under the reversed
\* listing when t is contained in one segment only.
C22_ContainmentAmbiguousOnlyAtBoundaries ==
    pc = "found" =>
        LET hits == Containing(exclusive, timestamp) IN
        /\ \A i, j \in hits :
              i < j => (exclusive[i]["end"] = timestamp /\ exclusive[j]["start"] = timestamp)
        /\ hits # {} =>
              speaker = exclusive[CHOOSE i \in hits : \A j \in hits : i <= j]["speaker"]
        /\ Cardinality(hits) = 1 =>
              _find_speaker_at_time(timestamp, Reverse(exclusive)) = speaker

\* C22 witness: the timestamp is the boundary shared by two adjacent segments
\* of different speakers, one of them truncated there; the speaker found is
\* that of the earlier segment, and the reversed listing gives the other
C22_Witness ==
    /\ pc = "found"
    /\ Len(exclusive) = 2
    /\ exclusive[1]["start"] < exclusive[1]["end"]
    /\ exclusive[2]["start"] < exclusive[2]["end"]
    /\ exclusive[1]["end"] = timestamp /\ exclusive[2]["start"] = timestamp
    /\ \A i \in DOMAIN segments : segments[i] # exclusive[1]
    /\ speaker = exclusive[1]["speaker"]
    /\ _find_speaker_at_time(timestamp, Reverse(exclusive)) = exclusive[2]["speaker"]
    /\ exclusive[1]["speaker"] # exclusive[2]["speaker"]

\* the reference: in the stable order by start, every segment that its
\* successor starts inside ends where the successor starts, and is removed
\* if nothing is left of it
Shortened(sorted, i) == i < Len(sorted) /\ sorted[i + 1]["start"] < sorted[i]["end"]

Shorten(sorted, i) ==
    IF Shortened(sorted, i)
    THEN [sorted[i] EXCEPT !["end"] = sorted[i + 1]["start"],
                           !["duration"] = sorted[i + 1]["start"] - sorted[i]["start"]]
    ELSE sorted[i]

RECURSIVE ReferenceFrom(_, _)
ReferenceFrom(sorted, i) ==
    IF i > Len(sorted) THEN <<>>
    ELSE IF Shortened(sorted, i) /\ Shorten(sorted, i)["duration"] <= 0
         THEN ReferenceFrom(sorted, i + 1)
         ELSE <<Shorten(sorted, i)>> \o ReferenceFrom(sorted, i + 1)

Reference(segs) == ReferenceFrom(sorted_segments(segs), 1)

NoneContains(t, segs) ==
    \A i \in DOMAIN segs : ~(segs[i]["start"] <= t /\ t <= segs[i]["end"])

\* gap between t and a segment that does not contain it
Gap(t, seg) == IF t < seg["start"] THEN seg["start"] - t ELSE t - seg["end"]

MinGap(t, segs) ==
    CHOOSE d \in {Gap(t, segs[i]) : i \in DOMAIN segs} :
        \A j \in DOMAIN segs : d <= Gap(t, segs[j])

FirstAtMinGap(t, segs) ==
    CHOOSE i \in DOMAIN segs :
        /\ Gap(t, segs[i]) = MinGap(t, segs)
        /\ \A j \in 1..(i - 1) : Gap(t, segs[j]) # MinGap(t, segs)

\* C10: when no segment contains the timestamp, the answer is the speaker of
\* the first segment at minimum distance if that distance is strictly below
\* the tolerance, and no speaker otherwise (also at exactly the tolerance and
\* on an empty timeline).
C10_NearestWithinTolerance ==
    (pc = "found" /\ NoneContains(timestamp, exclusive)) =>
        speaker = IF exclusive = <<>> THEN None
                  ELSE IF MinGap(timestamp, exclusive) < Tolerance
                       THEN exclusive[FirstAtMinGap(timestamp, exclusive)]["speaker"]
                       ELSE None

\* C10 witness: the nearest segment lies exactly the tolerance away
C10_Witness ==
    /\ pc = "found"
    /\ Len(exclusive) >= 2
    /\ NoneContains(timestamp, exclusive)
    /\ MinGap(timestamp, exclusive) = Tolerance
    /\ speaker = None

(***************************************************************************)
(* Properties of SpecMerge                                                 *)
(***************************************************************************)
Returned == pc \in {"segment_level", "no_diarization", "word_level"}

RECURSIVE Flatten(_)
Flatten(lists) == IF lists = <<>> THEN <<>> ELSE Head(lists) \o Flatten(Tail(lists))

HasText(word) == strip(Get(word, "word", <<>>)) # <<>>

\* the speaker-tagged tokens handed to _group_words_into_turns
TaggedTokens ==
    _assign_words_to_speakers(extract_words(whisper_result),
                              Get(diarization_result, "segments", <<>>))

\* C4: the member tokens of the turns _group_words_into_turns builds, read
\* turn after turn, are exactly the tokens with non-empty trimmed text in
\* their original order; no turn is empty and every built turn is returned.
C4_TurnsPartitionTokens ==
    pc = "word_level" =>
        /\ Flatten(turn_words) = SelectSeq(TaggedTokens, HasText)
        /\ \A i \in DOMAIN turn_words : turn_words[i] # <<>>
        /\ Len(merged["segments"]) = Len(turn_words)

\* C4 witness: three tokens, the middle one blank, the other two in two turns
\* of different speakers
C4_Witness ==
    /\ pc = "word_level"
    /\ Len(TaggedTokens) = 3
    /\ ~HasText(TaggedTokens[2])
    /\ turn_words = <<<<TaggedTokens[1]>>, <<TaggedTokens[3]>>>>
    /\ TaggedTokens[1]["speaker"] # TaggedTokens[3]["speaker"]

\* the stripped texts of the words of a turn
MemberTexts(ws) == [j \in DOMAIN ws |-> strip(Get(ws[j], "word", <<>>))]

\* C11: every returned turn starts where its first member token starts, ends
\* where its last member token ends, carries their speaker, and its text is
\* the stripped texts of its member tokens joined by single spaces in order.
C11_TurnSpansAndText ==
    pc = "word_level" =>
        \A i \in DOMAIN turn_words :
            LET turn == merged["segments"][i]
                ws == turn_words[i]
            IN  /\ turn["start"] = ws[1]["start"]
                /\ turn["end"] = Last(ws)["end"]
                /\ turn["speaker"] = ws[1]["speaker"]
                /\ turn["text"] = join_space(MemberTexts(ws))

\* C11 witness: two turns of different speakers; the first has two member
\* tokens, apart in time, one of them with leading blanks, and text "a b"
C11_Witness ==
    /\ pc = "word_level"
    /\ Len(turn_words) = 2
    /\ Len(turn_words[1]) = 2
    /\ turn_words[1][1]["end"] < turn_words[1][2]["start"]
    /\ merged["segments"][1]["text"] = <<"a", " ", "b">>
    /\ merged["segments"][1]["end"] = turn_words[1][2]["end"]
    /\ merged["segments"][1]["speaker"] # merged["segments"][2]["speaker"]

\* the texts of the returned turns, in order
TurnTexts == [i \in DOMAIN merged["segments"] |-> merged["segments"][i]["text"]]

\* C12 (as claimed): the returned text is the full text Whisper reports when
\* that is non-empty, and otherwise the texts of the returned turns joined by
\* single spaces, on the word-level and on the segment-level path.
C12_FullTextFromTurns ==
    Returned =>
        merged["text"] = IF Get(whisper_result, "text", <<>>) # <<>>
                         THEN whisper_result["text"]
                         ELSE join_space(TurnTexts)

\* the distinct speaker labels among the returned turns
TurnSpeakers == {merged["segments"][i]["speaker"] : i \in DOMAIN merged["segments"]}

\* C13 (as claimed): on every path the returned num_speakers is the count the
\* diarization reports when it reports one, and otherwise the number of
\* distinct speaker labels among the returned turns.
C13_SpeakerCount ==
    Returned =>
        merged["num_speakers"] = IF "num_speakers" \in DOMAIN diarization_result
                                 THEN diarization_result["num_speakers"]
                                 ELSE Cardinality(TurnSpeakers)

\* the midpoint of the word lies the tolerance or more from every segment
Distant(word, segs) ==
    \A i \in DOMAIN segs :
        distance((word["start"] + word["end"]) \div 2, segs[i]) >= Tolerance

RemoveAt(xs, k) == [i \in 1..(Len(xs) - 1) |-> IF i < k THEN xs[i] ELSE xs[i + 1]]

\* C14: a word whose midpoint lies the tolerance or more from every
\* diarization segment does not stop the merge: the result is returned, the
\* word, when its text is not blank, is a member of a turn labelled
\* SPEAKER_UNKNOWN, and the other words sit in the turns with the labels they
\* get when the word is left out of the input.
C14_DistantWordIsUnassigned ==
    pc = "word_level" =>
        LET words == extract_words(whisper_result)
            segs == diarization_result["segments"]
        IN  \A k \in DOMAIN words :
                Distant(words[k], segs) =>
                    LET tagged == [speaker |-> "SPEAKER_UNKNOWN"] @@ words[k] IN
                    /\ HasText(words[k]) =>
                           \E i \in DOMAIN turn_words :
                               /\ merged["segments"][i]["speaker"] = "SPEAKER_UNKNOWN"
                               /\ \E j \in DOMAIN turn_words[i] : turn_words[i][j] = tagged
                    /\ SelectSeq(Flatten(turn_words), LAMBDA w : w # tagged)
                          = SelectSeq(_assign_words_to_speakers(RemoveAt(words, k), segs),
                                      HasText)

\* C14 witness: the first word lies exactly the tolerance from the only
\* segment and forms a turn labelled SPEAKER_UNKNOWN; the next word is
\* given the speaker of that segment
C14_Witness ==
    /\ pc = "word_level"
    /\ Len(turn_words) = 2
    /\ Len(diarization_result["segments"]) = 1
    /\ distance((turn_words[1][1]["start"] + turn_words[1][1]["end"]) \div 2,
                diarization_result["segments"][1]) = Tolerance
    /\ merged["segments"][1]["speaker"] = "SPEAKER_UNKNOWN"
    /\ merged["segments"][2]["speaker"] = diarization_result["segments"][1]["speaker"]

\* the label of a span by its midpoint on the exclusive timeline of the call
ExclusiveLabel(x) ==
    LET found == _find_speaker_at_time(
                     (x["start"] + x["end"]) \div 2,
                     _make_exclusive(Get(diarization_result, "segments", <<>>)))
    IN  IF found # None THEN found ELSE "SPEAKER_UNKNOWN"

\* C20 (as claimed): merge aligns on the exclusive timeline: every word in a
\* turn, and every turn made of a Whisper segment, carries the label that
\* _find_speaker_at_time returns for its midpoint on _make_exclusive of the
\* diarization segments.
C20_MergeAlignsOnExclusiveTimeline ==
    /\ pc = "word_level" =>
          \A i \in DOMAIN turn_words : \A j \in DOMAIN turn_words[i] :
              turn_words[i][j]["speaker"] = ExclusiveLabel(turn_words[i][j])
    /\ pc = "segment_level" =>
          \A i \in DOMAIN merged["segments"] :
              merged["segments"][i]["speaker"] = ExclusiveLabel(merged["segments"][i])

\* C21 (as claimed): in every returned turn identified_as and confidence are
\* the entries of the two maps under the turn's speaker label (null where a
\* map has no entry), and the merge has made no similarity query.
C21_AnnotationIsLabelLookup ==
    Returned =>
        /\ \A i \in DOMAIN merged["segments"] :
              LET turn == merged["segments"][i] IN
              /\ Get(turn, "identified_as", None) = Get(speaker_mapping, turn["speaker"], None)
              /\ Get(turn, "confidence", NoScore)
                    = Get(speaker_confidences, turn["speaker"], NoScore)
        /\ search_results = <<>>

\* the audio duration the producers report
\* C23: no two consecutive turns of the result carry the same speaker, on the
\* word-level path and on the segment-level fallback alike.
C23_TurnsAreMaximal ==
    Returned =>
        \A i \in DOMAIN merged["segments"] :
            i > 1 => merged["segments"][i]["speaker"] # merged["segments"][i - 1]["speaker"]

\* C28: a call of merge_transcription_with_diarization leaves its four
\* arguments as they were, the words of the Whisper result included.
C28_ArgumentsUnchanged ==
    [][/\ whisper_result' = whisper_result
       /\ diarization_result' = diarization_result
       /\ speaker_mapping' = speaker_mapping
       /\ speaker_confidences' = speaker_confidences]_vars

ReportedAudioDuration ==
    Get(whisper_result, "duration", Get(diarization_result, "audio_duration", 0))

\* C5 (as claimed): with zero diarization segments merge returns exactly one
\* turn, from 0 to the reported audio duration, for word-level and for
\* segment-level transcriptions alike.
C5_ZeroSegmentsSingleTurn ==
    (Returned /\ Get(diarization_result, "segments", <<>>) = <<>>) =>
        /\ Len(merged["segments"]) = 1
        /\ merged["segments"][1]["start"] = 0
        /\ merged["segments"][1]["end"] = ReportedAudioDuration

NameMissing(turn) == "identified_as" \notin DOMAIN turn \/ turn["identified_as"] = None

ConfidenceMissing(turn) == "confidence" \notin DOMAIN turn \/ turn["confidence"] = NoScore

\* C9 (as claimed): in every returned turn identified_as is null or absent
\* exactly when confidence is null or absent, whatever maps were supplied.
C9_NameIffConfidence ==
    Returned =>
        \A i \in DOMAIN merged["segments"] :
            NameMissing(merged["segments"][i]) <=> ConfidenceMissing(merged["segments"][i])

(***************************************************************************)
(* Properties of SpecIdentify                                              *)
(***************************************************************************)
\* identify_speaker_by_voting has returned and its arguments are still held
\* C24: every query of identify_speaker_by_voting asks for the top 3 matches
\* and uses the caller's score threshold whenever one is supplied, 0 included,
\* and the configured default only when none is supplied.
C24_QueriesUseSuppliedThreshold ==
    \A i \in DOMAIN queries :
        /\ queries[i]["limit"] = 3
        /\ queries[i]["score_threshold"] =
              IF similarity_threshold # NoScore THEN similarity_threshold[1]
              ELSE settings_threshold

VoteReturned ==
    \/ pc = "voted"
    \/ /\ pc \in {"speakers", "done"}
       /\ embeddings # <<>>
       /\ Len(search_results) = Len(embeddings)

\* every match returned to this call, in embedding order
AllMatches == Flatten(search_results)

Candidates == {AllMatches[i]["speaker_id"] : i \in DOMAIN AllMatches}

ScoresOf(id) ==
    LET mine == SelectSeq(AllMatches, LAMBDA m : m["speaker_id"] = id)
    IN  [i \in DOMAIN mine |-> mine[i]["score"]]

MeanOf(id) == <<Sum(ScoresOf(id)), Len(ScoresOf(id))>>

FirstSeen(id) == CHOOSE i \in DOMAIN AllMatches :
                    /\ AllMatches[i]["speaker_id"] = id
                    /\ \A j \in 1..(i - 1) : AllMatches[j]["speaker_id"] # id

\* the candidate with the highest mean, the first seen among equals
Winner ==
    CHOOSE id \in Candidates :
        \A other \in Candidates \ {id} :
            \/ Greater(MeanOf(id), MeanOf(other))
            \/ (~Greater(MeanOf(other), MeanOf(id)) /\ FirstSeen(id) < FirstSeen(other))

SameMean(a, b) == a[1] * b[2] = b[1] * a[2]

\* C30: when some query of the vote returned a candidate, the vote returns an
\* identity, whatever the scores of the candidates.
C30_CandidateMeansIdentity ==
    (VoteReturned /\ Candidates # {}) => match # <<>>

\* C6 (as claimed): when some query returned a candidate, the vote returns the
\* candidate with the highest mean score, the first in iteration order among
\* candidates of equal mean, and the score it reports is that mean.
C6_HighestMeanWins ==
    (VoteReturned /\ Candidates # {}) =>
        /\ match # <<>>
        /\ match[1]["speaker_id"] = Winner
        /\ SameMean(match[1]["score"], MeanOf(Winner))

\* the queried embeddings whose matches include the identity
EmbeddingsMatching(id) ==
    {i \in DOMAIN search_results :
        \E j \in DOMAIN search_results[i] : search_results[i][j]["speaker_id"] = id}

\* C7 (as claimed): num_matches is the number of queried embeddings that
\* returned the winning identity, hence at most the number of embeddings.
C7_MatchCountCountsEmbeddings ==
    (VoteReturned /\ match # <<>>) =>
        /\ match[1]["num_matches"] = Cardinality(EmbeddingsMatching(match[1]["speaker_id"]))
        /\ match[1]["num_matches"] <= Len(embeddings)

NoCandidates == \A i \in DOMAIN search_results : search_results[i] = <<>>

\* C8: the vote returns None for an empty embedding list and when no query
\* returned a candidate; a speaker without usable embedding is mapped to a
\* null identity and a null confidence, and only a failed diarization or a
\* failed similarity query ends the request in an error.
C8_NoMatchIsNotAnError ==
    /\ (pc = "voted" /\ embeddings = <<>>) => match = <<>>
    /\ (VoteReturned /\ NoCandidates) => match = <<>>
    /\ \A spk \in DOMAIN extracted :
          extracted[spk] = <<>> =>
              /\ spk \in DOMAIN id_mapping /\ id_mapping[spk] = None
              /\ spk \in DOMAIN id_confidences /\ id_confidences[spk] = NoScore
    /\ pc = "done" =>
          \A i \in DOMAIN exclusive : exclusive[i]["speaker"] \in DOMAIN id_mapping
    /\ pc = "error" =>
          \/ exclusive = <<>> /\ extracted = NoDict
          \/ Len(search_results) < Len(embeddings)

\* C8 witness: the request has answered; one speaker had no usable embedding,
\* the other had one whose query returned no candidate
C8_Witness ==
    /\ pc = "done"
    /\ \E spk \in DOMAIN extracted : extracted[spk] = <<>> /\ id_mapping[spk] = None
    /\ embeddings # <<>>
    /\ NoCandidates
    /\ match = <<>>
    /\ \A spk \in DOMAIN id_mapping : id_mapping[spk] = None /\ id_confidences[spk] = NoScore
    /\ Cardinality(DOMAIN id_mapping) = 2

(***************************************************************************)
(* Properties of SpecTranscribe                                            *)
(***************************************************************************)
\* the extraction of an embedding raised for a segment of the speaker
ExtractionFailed(spk) ==
    Len(extracted[spk]) < Len(long_enough(segments_of(exclusive, spk), MinIdentifyDuration))

\* C16 (as claimed): a request in which an external call failed (the
\* diarization, the extraction of an embedding for a segment, a similarity
\* query, the transcription) ends in an error and returns no transcript.
C16_FailureAbortsRequest ==
    /\ pc = "transcript" => \A spk \in DOMAIN extracted : ~ExtractionFailed(spk)
    /\ pc = "error" => merged = <<>>

(***************************************************************************)
(* Properties of SpecSpans                                                 *)
(***************************************************************************)
ValidSpan(x) == x["start"] <= x["end"]

AllValid(xs) == \A i \in DOMAIN xs : ValidSpan(xs[i])

\* the Whisper tokens of the call: its words, or its segments without words
CallTokens ==
    IF extract_words(whisper_result) # <<>> THEN extract_words(whisper_result)
    ELSE Get(whisper_result, "segments", <<>>)

\* C15 (as claimed): an operation that was handed a span with end < start
\* returns no result: _make_exclusive returns no timeline for tracks holding
\* such a span, and merge returns no turns for a diarization segment or a
\* token holding one.
C15_InvalidSpanRejected ==
    /\ pc = "diarized" => AllValid(segments)
    /\ Returned => (AllValid(diarization_result["segments"]) /\ AllValid(CallTokens))

(***************************************************************************)
(* Properties of SpecStore                                                 *)
(***************************************************************************)
\* the delete requests that were answered with success
Deleted == {p \in DOMAIN requests :
               requests[p]["op"] = "delete" /\ requests[p]["result"] = "deleted"}

\* C17 (as claimed): once a delete of a speaker has returned success, no
\* point of the collection carries that speaker_id, and a lookup or a listing
\* reports the speaker absent, under every interleaving of the requests.
C17_DeleteIsAtomic ==
    \A p \in Deleted :
        LET X == requests[p]["speaker_id"] IN
        /\ points_of(store, X) = {}
        /\ get_speaker_by_id(store, X) = <<>>
        /\ X \notin get_all_speakers(store)

\* the registrations that have drawn their ids
Registering == {p \in DOMAIN requests :
                   requests[p]["op"] = "register" /\ requests[p]["pc"] # "received"}

Registered == {p \in Registering : requests[p]["pc"] = "done"}

\* C18: concurrent registrations, also under the same display name, have
\* pairwise different speaker ids, none of them an id already stored; the
\* points a registration writes carry its own id and name, and after the
\* registrations the collection holds, under each such id, exactly the points
\* that registration wrote.
C18_RegistrationsAreIndependent ==
    /\ \A p, q \in Registering :
          p # q => requests[p]["speaker_id"] # requests[q]["speaker_id"]
    /\ \A p \in Registering :
          /\ requests[p]["speaker_id"] \notin get_all_speakers(InitialPoints)
          /\ Cardinality(requests[p]["points"]) = requests[p]["count"]
          /\ \A pt \in requests[p]["points"] :
                /\ pt["speaker_id"] = requests[p]["speaker_id"]
                /\ pt["speaker_name"] = requests[p]["speaker_name"]
    /\ \A p \in Registered :
          points_of(store, requests[p]["speaker_id"]) = requests[p]["points"]

\* C18 witness: two registrations under the same name, of one and of two
\* embeddings, both answered, and a third still between its ids and its upsert
C18_Witness ==
    \E p, q, r \in DOMAIN requests :
        /\ p # q
        /\ {p, q} \subseteq Registered
        /\ requests[p]["speaker_name"] = requests[q]["speaker_name"]
        /\ requests[p]["count"] = 1 /\ requests[q]["count"] = 2
        /\ Cardinality(points_of(store, requests[p]["speaker_id"])) = 1
        /\ Cardinality(points_of(store, requests[q]["speaker_id"])) = 2
        /\ r \in Registering \ Registered

(***************************************************************************)
(* Properties of SpecExtract                                               *)
(***************************************************************************)
Duration(seg) == seg["end"] - seg["start"]

FromSegments(embs, segs, min_duration) ==
    \A i \in DOMAIN embs :
        /\ Duration(embs[i]) >= min_duration
        /\ \E j \in DOMAIN segs : segs[j] = embs[i]

\* the embeddings voted on come from segments of 0.5 s or more, those stored
\* by an enrollment from segments of 1.0 s or more, one point each
EmbeddingsFromLongSegments ==
    /\ pc = "voting" => FromSegments(embeddings, exclusive, MinIdentifyDuration)
    /\ pc = "enrolled" =>
          /\ FromSegments(embeddings, segments, MinEnrollDuration)
          /\ Cardinality(requests[1]["points"]) = Len(embeddings)
          /\ store = InitialPoints \cup requests[1]["points"]

\* a speaker of an identification without a segment of 0.5 s is mapped to
\* None, without an error
ShortSpeakersUnidentified ==
    \A spk \in DOMAIN id_mapping :
        long_enough(segments_of(exclusive, spk), MinIdentifyDuration) = <<>>
            => id_mapping[spk] = None

\* C25 (as claimed): embeddings voted on come from segments of 0.5 s or more,
\* embeddings stored by an enrollment from segments of 1.0 s or more, and a
\* request is not failed for its short segments: an enrollment is rejected
\* only if it had no segment at all or a segment of 1.0 s or more was lost.
C25_ShortSegmentsNeverFailRequest ==
    /\ EmbeddingsFromLongSegments
    /\ ShortSpeakersUnidentified
    /\ pc = "rejected" =>
          (segments = <<>> \/ long_enough(segments, MinEnrollDuration) # <<>>)

\* C25 (amended): embeddings voted on come from segments of 0.5 s or more,
\* embeddings stored by an enrollment from segments of 1.0 s or more; short
\* segments are skipped, a speaker left without embedding is mapped to None,
\* and an enrollment left without embedding is rejected and stores nothing,
\* which always happens when all its segments are shorter than 1.0 s.
C25_ShortSegmentsSkipped ==
    /\ EmbeddingsFromLongSegments
    /\ ShortSpeakersUnidentified
    /\ pc = "rejected" => (embeddings = <<>> /\ store = InitialPoints)
    /\ (pc = "enrolled" \/ pc = "rejected") =>
          (long_enough(segments, MinEnrollDuration) = <<>> => pc = "rejected")

\* C25 witness: an enrollment with a segment under 1.0 s and a segment of
\* 1.0 s has stored one embedding, that of the long segment
C25_Witness ==
    /\ pc = "enrolled"
    /\ Len(segments) = 2
    /\ \E i \in DOMAIN segments : Duration(segments[i]) < MinEnrollDuration
    /\ Len(embeddings) = 1
    /\ Cardinality(store) = Cardinality(InitialPoints) + 1

(***************************************************************************)
(* Properties of SpecSerial                                                *)
(***************************************************************************)
\* the speakers a client expects after the first k requests, each with its
\* number of embeddings: those stored at the start, those registered, less
\* those deleted
RECURSIVE Registry(_)
Registry(k) ==
    IF k = 0 THEN [speaker_id \in {"X", "Y"} |-> IF speaker_id = "X" THEN MaxStored ELSE 1]
    ELSE LET before == Registry(k - 1)
             r == requests[k]
             known == r["speaker_id"] \in DOMAIN before
         IN  IF r["op"] = "register" THEN Put(before, r["speaker_id"], r["count"])
             ELSE IF r["op"] = "add_sample" /\ known
                  THEN Put(before, r["speaker_id"], before[r["speaker_id"]] + r["count"])
             ELSE IF r["op"] = "delete" /\ known
                  THEN [speaker_id \in DOMAIN before \ {r["speaker_id"]} |-> before[speaker_id]]
             ELSE before

\* the answer a client expects to request k
Answer(k) ==
    LET r == requests[k]
        known == r["speaker_id"] \in DOMAIN Registry(k - 1)
    IN  IF r["op"] = "register" THEN "registered"
        ELSE IF ~known THEN "not_found"
        ELSE IF r["op"] = "add_sample" THEN "added" ELSE "deleted"

Served == Cardinality({p \in 1..MaxRequests : requests[p]["pc"] = "done"})

Quiescent == \A p \in 1..MaxRequests : requests[p]["pc"] \in {"received", "done"}

\* C26: between requests served one at a time the listing has exactly the
\* speakers registered and not deleted since, each with the number of
\* embeddings its registration and later samples appended; a sample for or a
\* deletion of an unknown speaker answers not found and changes nothing.
C26_ListingMatchesRegistry ==
    (pc = "serving" /\ Quiescent) =>
        /\ list_speakers(store) = Registry(Served)
        /\ \A k \in 1..Served : requests[k]["result"] = Answer(k)

\* C26 witness: a sample was added to X, X was deleted, and a further sample
\* for X was answered not found
C26_Witness ==
    /\ pc = "serving"
    /\ Served = MaxRequests
    /\ \E k \in 1..MaxRequests : requests[k]["result"] = "added"
    /\ \E k \in 1..MaxRequests : requests[k]["result"] = "deleted"
    /\ requests[MaxRequests]["op"] = "add_sample"
    /\ requests[MaxRequests]["result"] = "not_found"
    /\ "X" \notin DOMAIN list_speakers(store)

(***************************************************************************)
(* Properties of SpecUpload                                                *)
(***************************************************************************)
Saved(p) == uploads[p]["filepath"] # None

Completed(p) == uploads[p]["pc"] = "completed"

\* C29 (as claimed): when a request that saved its upload has completed,
\* with whatever status, the file is no longer in the upload directory.
C29_UploadRemovedAtCompletion ==
    \A p \in DOMAIN uploads :
        (Saved(p) /\ Completed(p)) => uploads[p]["filepath"] \notin upload_dir

\* C29 (amended): when a request that saved its upload has completed, with
\* whatever status, the file is no longer in the upload directory unless its
\* removal failed and was logged; until then the file is there.
C29_UploadRemovedUnlessRemovalFailed ==
    \A p \in DOMAIN uploads :
        Saved(p) =>
            /\ (Completed(p) /\ ~uploads[p]["warned"]) => uploads[p]["filepath"] \notin upload_dir
            /\ (Completed(p) /\ uploads[p]["warned"]) => uploads[p]["filepath"] \in upload_dir
            /\ ~Completed(p) => uploads[p]["filepath"] \in upload_dir

\* C29 witness: a request whose processing raised has completed and its file
\* is gone, while the file of the other request, still served, is in place
C29_Witness ==
    /\ pc = "serving"
    /\ \E p, q \in DOMAIN uploads :
          /\ Saved(p) /\ Completed(p)
          /\ uploads[p]["status"] = 500
          /\ uploads[p]["filepath"] \notin upload_dir
          /\ Saved(q) /\ uploads[q]["pc"] = "finally"
          /\ uploads[q]["filepath"] \in upload_dir

====
